---- MODULE Spec2Model ----
(***************************************************************************)
(* Stellify star-map core (main.py): the location resolver with its        *)
(* on-disk JSON cache, the per-frame pipeline generate_star_map, and the   *)
(* animation orchestrator generate_star_map_gif with its process pool.     *)
(*                                                                         *)
(* Two specifications:                                                     *)
(*   Spec       one call of an entry point (generate_star_map_png or       *)
(*              generate_star_map_gif) and the frame tasks it spawns;      *)
(*   SpecCache  several processes that call get_coordinates and share     *)
(*              the cache file.                                            *)
(***************************************************************************)
EXTENDS Integers, Sequences, FiniteSets, TLC

\* ---------------------------------------------------------------- bounds
MaxFrames  == 2      \* the arguments tried ask for at most this many frames
CpuCount   == 2      \* multiprocessing.cpu_count() of the host
MaxCalls   == 2      \* get_coordinates calls per client in SpecCache

MinutesPerHour == 60
MinutesPerDay  == 24 * MinutesPerHour

\* step_minutes arguments tried (0 makes line 189 divide by zero)
StepChoices  == {0, 20, 30, 60, 90}
HourChoices  == {0 - 1, 0, 1, 2}
\* start of the animation, in minutes since day 0, 00:00 (23:30 crosses midnight)
StartChoices == {1410}

MaxTasks == MaxFrames

PngCaller == 0                                  \* generate_star_map run inline by the caller
Tasks     == 1 .. MaxTasks                      \* task t renders args_list[t]
Clients   == {MaxTasks + 1, MaxTasks + 2}         \* processes sharing the cache file
Callers   == {PngCaller} \cup Tasks \cup Clients
Workers   == 1 .. CpuCount                      \* processes of the ProcessPoolExecutor

\* ------------------------------------------------------- timestamp strings
\* '%Y-%m-%d %H:%M:%S' text: the fields the format prints, or text that does not match
Malformed == [fmt |-> "bad", day |-> 0, hour |-> 0, minute |-> 0]

strftime(t) ==
    [fmt |-> "ok", day |-> t \div MinutesPerDay,
     hour |-> (t % MinutesPerDay) \div MinutesPerHour,
     minute |-> t % MinutesPerHour]

ParseOk(s) == s.fmt = "ok"

strptime(s) == s.day * MinutesPerDay + s.hour * MinutesPerHour + s.minute

\* int(a / b) of Python: true division, then truncation toward zero (b # 0)
Abs(x) == IF x < 0 THEN 0 - x ELSE x

IntDiv(a, b) ==
    IF (a >= 0) = (b > 0) THEN Abs(a) \div Abs(b) ELSE 0 - (Abs(a) \div Abs(b))

TotalFrames(hours, step_minutes) == IntDiv(hours * MinutesPerHour, step_minutes)

Range(n) == 1 .. (IF n > 0 THEN n ELSE 0)

\* the offset had the frames been counted from 1
FrameOffsetShifted(i, step_minutes) == i * step_minutes

\* minutes added to start_dt for the i-th element (1-based) of `times`
FrameOffset(i, step_minutes) == (i - 1) * step_minutes

Times(start_dt, step_minutes, total_frames) ==
    [i \in Range(total_frames) |-> start_dt + FrameOffset(i, step_minutes)]

ArgsList(location, times) ==
    [i \in DOMAIN times |-> [location |-> location, when_str |-> strftime(times[i])]]

\* ------------------------------------------------------- geocoding service
Names    == {"Sydney", "Perth", "Atlantis"}
Matched  == {"Sydney", "Perth"}
NoMatch  == << >>

\* Nominatim.geocode: (latitude, longitude) of the match, or None
Geocode(name) ==
    CASE name = "Sydney" -> <<0 - 34, 151>>
      [] name = "Perth"  -> <<0 - 32, 116>>
      [] OTHER           -> NoMatch

\* ------------------------------------------------------------- cache file
\* Python values: a (lat, lon) tuple as built at line 71, a list as json.loads builds
PyTuple(items) == [py |-> "tuple", items |-> items]
PyList(items)  == [py |-> "list", items |-> items]
NoCoords       == [py |-> "none", items |-> << >>]
EmptyDict      == << >>

\* the file: absent, empty (just truncated), garbled text, bytes that do not
\* decode, or a JSON object name -> [lat, lon]
FileOf(kind, obj) == [kind |-> kind, obj |-> obj]
Absent      == FileOf("absent", EmptyDict)
Truncated   == FileOf("empty", EmptyDict)
Garbled     == FileOf("garbled", EmptyDict)
Undecodable == FileOf("undecodable", EmptyDict)

json_dumps(cache) == FileOf("json", [n \in DOMAIN cache |-> cache[n].items])

json_loads(f) == [n \in DOMAIN f.obj |-> PyList(f.obj[n])]

DictSet(cache, key, value) ==
    [n \in (DOMAIN cache) \cup {key} |-> IF n = key THEN value ELSE cache[n]]

\* what read_text + json.loads at lines 56-60 do with the file:
\* "dict" with the parsed cache, "miss" for no file or a JSONDecodeError,
\* "raise" for an exception the except clause does not name
LoadOutcome(f) ==
    CASE f.kind = "json"        -> "dict"
      [] f.kind = "undecodable" -> "raise"
      [] OTHER                  -> "miss"

InitialFiles ==
    {Absent, Garbled, Undecodable}
    \cup {FileOf("json", [n \in S |-> Geocode(n)]) : S \in SUBSET Matched}

\* ------------------------------------------------------------------ state
VARIABLES
    main,       \* the caller of the entry point: position, arguments, locals
    act,        \* per caller: its generate_star_map / get_coordinates activation
    file,       \* CACHE_FILE
    artifact,   \* the GIF under OUTPUT_DIR: written or not, and its frames
    completed,  \* frame tasks in the order their futures finished
    geoCalls,   \* per name: calls made to the geocoding service
    gcCalls,    \* get_coordinates calls: by the caller before fan-out, by frame tasks
    tzCalls,    \* get_timezone calls, likewise
    returned,   \* per name: the values get_coordinates has returned
    stored,     \* names whose entry has been written to the cache file
    calls,      \* per client of SpecCache: get_coordinates calls made
    pool,       \* per pool process: the task it runs (0: none), the loads it made
    sky         \* SpecSky: the catalogue index, the constellation lines, the edges drawn

vars == <<main, act, file, artifact, completed, geoCalls, gcCalls, tzCalls,
          returned, stored, calls, pool, sky>>

NoErr == [type |-> "", at |-> ""]
Err(type, at) == [type |-> type, at |-> at]

\* the exception class each failure raises, by the place that raises it
ErrType(at) ==
    CASE at = "read_text"       -> "UnicodeDecodeError"   \* line 58, not caught at 59
      [] at = "geocode_service" -> "GeocoderServiceError" \* line 68, geopy's own
      [] at = "geocode"         -> "ValueError"           \* line 70, no match
      [] at = "load_data"       -> "HTTPError"            \* line 40
      [] at = "get_timezone"    -> "RuntimeError"         \* line 87
      [] at = "strptime"        -> "ValueError"           \* lines 98 and 188
      [] at = "total_frames"    -> "ZeroDivisionError"    \* line 189
      [] OTHER                  -> "ImageioError"         \* line 207

Raised(at) == Err(ErrType(at), at)
\* no x and y columns
NoXY == 0 - 1

\* no dataframe yet
NoStars == [loaded |-> FALSE, xy |-> NoXY]

\* a module-level dataframe: the one the process loaded before is handed out
\* again, with the columns it has by then
LoadedStarsKept(held) == IF held.loaded THEN held ELSE [loaded |-> TRUE, xy |-> NoXY]

\* lines 34-35: every load_data call reads the catalogue into a new dataframe,
\* whatever dataframe the process built before
LoadedStars(held) == [loaded |-> TRUE, xy |-> NoXY]

\* lines 99-115: the x and y columns are computed for the instant t and
\* assigned to the dataframe of this call
Project(stars, t) == [stars EXCEPT !.xy = t]

NoImage == [when |-> 0 - 1, location |-> "", xy |-> NoXY]

IdleAct(pc) ==
    [pc |-> pc, location |-> "", when_str |-> Malformed, cache |-> EmptyDict,
     coords |-> NoCoords, stars |-> NoStars, img |-> NoImage, err |-> NoErr, net |-> 0,
     readKind |-> "", hadEntry |-> FALSE, geocoded |-> FALSE]

NoArtifact == [written |-> FALSE, frames |-> << >>]

Where(who, n) == [main |-> IF who = "main" THEN n ELSE 0,
                  worker |-> IF who = "worker" THEN n ELSE 0]

Bump(counter, c) ==
    IF c \in Tasks THEN [counter EXCEPT !.worker = @ + 1]
                   ELSE [counter EXCEPT !.main = @ + 1]

StoredIn(f) == IF f.kind = "json" THEN DOMAIN f.obj ELSE {}

InitCommon ==
    /\ file \in InitialFiles
    /\ artifact = NoArtifact
    /\ completed = << >>
    /\ geoCalls = [n \in Names |-> 0]
    /\ gcCalls = Where("main", 0)
    /\ tzCalls = Where("main", 0)
    /\ returned = [n \in Names |-> {}]
    /\ stored = StoredIn(file)
    /\ calls = [c \in Clients |-> 0]
    /\ pool = [w \in Workers |-> [task |-> 0, loads |-> 0, held |-> NoStars]]

NoSky == [pc |-> "off", index |-> {}, data |-> << >>, edges |-> << >>,
          edges_star1 |-> << >>, edges_star2 |-> << >>, drawn |-> << >>]

\* one call of an entry point, with its arguments
Init ==
    /\ InitCommon
    /\ sky = NoSky
    /\ \E entry \in {"png", "gif"}, location \in Names,
          when \in {Malformed} \cup {strftime(t) : t \in StartChoices},
          hours \in HourChoices, step_minutes \in StepChoices :
          /\ step_minutes # 0 => TotalFrames(hours, step_minutes) <= MaxFrames
          /\ main = [pc |-> "start", entry |-> entry, location |-> location,
                     when |-> when, hours |-> hours, step_minutes |-> step_minutes,
                     start_dt |-> 0, total_frames |-> 0, args_list |-> << >>,
                     next |-> 0, images |-> << >>, err |-> NoErr]
    /\ act = [c \in Callers |-> IdleAct(IF c \in Clients THEN "idle" ELSE "none")]

\* ------------------------------------------------- get_coordinates (53-76)
\* where a caller continues when get_coordinates returns
AfterResolve(c) == IF c \in Clients THEN "returned" ELSE "get_timezone"

\* the value returned on a cache hit (line 64)
HitValue(cache, location) == PyTuple(cache[location].items)

\* lines 54-64: load the cache file, return on a hit
GcRead(c) ==
    /\ act[c].pc = "gc_read"
    /\ LET outcome == LoadOutcome(file)
           cache   == IF outcome = "dict" THEN json_loads(file) ELSE EmptyDict
       IN  IF outcome = "raise"
           THEN /\ act' = [act EXCEPT ![c].pc = "raised", ![c].readKind = file.kind,
                                      ![c].err = Raised("read_text")]
                /\ UNCHANGED returned
           ELSE IF act[c].location \in DOMAIN cache
           THEN /\ act' = [act EXCEPT ![c].pc = AfterResolve(c), ![c].cache = cache,
                                      ![c].readKind = file.kind,
                                      ![c].coords = HitValue(cache, act[c].location)]
                /\ returned' = [returned EXCEPT ![act[c].location] =
                                   @ \cup {HitValue(cache, act[c].location)}]
           ELSE /\ act' = [act EXCEPT ![c].pc = "gc_geocode", ![c].cache = cache,
                                      ![c].readKind = file.kind]
                /\ UNCHANGED returned
    /\ UNCHANGED <<main, file, artifact, completed, geoCalls, gcCalls, tzCalls,
                   stored, calls, pool, sky>>

\* no check of the answer: whatever came back is taken for a match
MatchFoundAlways(loc) == TRUE

\* line 69, `if not loc`: the service named a place
MatchFound(loc) == loc # NoMatch

\* lines 67-74: ask the geocoding service; it answers with a match, with no
\* match, or not at all
GcGeocode(c) ==
    /\ act[c].pc = "gc_geocode"
    /\ geoCalls' = [geoCalls EXCEPT ![act[c].location] = @ + 1]
    /\ \E answers \in BOOLEAN :
          IF ~answers
          THEN act' = [act EXCEPT ![c].pc = "raised", ![c].net = @ + 1,
                                  ![c].err = Raised("geocode_service")]
          ELSE IF ~MatchFound(Geocode(act[c].location))
          THEN act' = [act EXCEPT ![c].pc = "raised", ![c].net = @ + 1,
                                  ![c].err = Raised("geocode")]
          ELSE LET coords == PyTuple(Geocode(act[c].location))
               IN  act' = [act EXCEPT ![c].pc = "gc_open", ![c].net = @ + 1,
                                      ![c].coords = coords, ![c].geocoded = TRUE,
                                      ![c].cache = DictSet(@, act[c].location, coords)]
    /\ UNCHANGED <<main, file, artifact, completed, gcCalls, tzCalls, returned,
                   stored, calls, pool, sky>>

\* line 75, write_text opening the file: open(..., 'w') truncates it
GcOpen(c) ==
    /\ act[c].pc = "gc_open"
    /\ file' = Truncated
    /\ act' = [act EXCEPT ![c].pc = "gc_write"]
    /\ UNCHANGED <<main, artifact, completed, geoCalls, gcCalls, tzCalls,
                   returned, stored, calls, pool, sky>>

\* what the file holds once this writer's text is written at offset 0: its
\* text, unless another writer's different text is already there, whose tail
\* survives when it is the longer one
WriteResults(f, text) ==
    IF f.kind \in {"json", "garbled"} /\ f # text THEN {text, Garbled} ELSE {text}

\* lines 75-76, write_text writing and closing, then the return
GcWrite(c) ==
    /\ act[c].pc = "gc_write"
    /\ file' \in WriteResults(file, json_dumps(act[c].cache))
    /\ stored' = stored \cup StoredIn(file')
    /\ act' = [act EXCEPT ![c].pc = AfterResolve(c)]
    /\ returned' = [returned EXCEPT ![act[c].location] = @ \cup {act[c].coords}]
    /\ UNCHANGED <<main, artifact, completed, geoCalls, gcCalls, tzCalls, calls, pool, sky>>

\* ------------------------------------- generate_star_map (89-122, 124-161)
FrameCallers == {PngCaller} \cup Tasks

\* the dataframe that the process running c built in its previous frame
Held(c) ==
    IF c \in Tasks /\ \E w \in Workers : pool[w].task = c
    THEN pool[CHOOSE w \in Workers : pool[w].task = c].held
    ELSE NoStars

\* line 90, load_data: the ephemeris and catalogue, and the constellation
\* lines fetched with requests.get, which raise_for_status may refuse
LoadData(c) ==
    /\ c \in FrameCallers
    /\ act[c].pc = "load_data"
    /\ \E ok \in BOOLEAN :
          IF ok
          THEN /\ act' = [act EXCEPT ![c].pc = "gc_read", ![c].net = @ + 1,
                                     ![c].stars = LoadedStars(Held(c)),
                                     ![c].hadEntry = act[c].location \in stored]
               /\ gcCalls' = Bump(gcCalls, c)
               /\ pool' = [w \in Workers |->
                             IF c \in Tasks /\ pool[w].task = c
                             THEN [pool[w] EXCEPT !.loads = @ + 1]
                             ELSE pool[w]]
          ELSE /\ act' = [act EXCEPT ![c].pc = "raised", ![c].net = @ + 1,
                                     ![c].err = Raised("load_data")]
               /\ UNCHANGED <<gcCalls, pool>>
    /\ UNCHANGED <<main, file, artifact, completed, geoCalls, tzCalls, returned,
                   stored, calls, sky>>

\* line 96, get_timezone (78-87): one request to timeapi.io
GetTimezone(c) ==
    /\ c \in FrameCallers
    /\ act[c].pc = "get_timezone"
    /\ tzCalls' = Bump(tzCalls, c)
    /\ \E ok \in BOOLEAN :
          IF ok
          THEN act' = [act EXCEPT ![c].pc = "strptime", ![c].net = @ + 1]
          ELSE act' = [act EXCEPT ![c].pc = "raised", ![c].net = @ + 1,
                                  ![c].err = Raised("get_timezone")]
    /\ UNCHANGED <<main, file, artifact, completed, geoCalls, gcCalls, returned,
                   stored, calls, pool, sky>>

\* line 98: the timestamp is parsed here, after the calls above; lines 99-115
\* project the catalogue for the parsed instant at the resolved place
Strptime(c) ==
    /\ c \in FrameCallers
    /\ act[c].pc = "strptime"
    /\ IF ParseOk(act[c].when_str)
       THEN act' = [act EXCEPT ![c].pc = "render",
                               ![c].stars = Project(@, strptime(act[c].when_str))]
       ELSE act' = [act EXCEPT ![c].pc = "raised",
                               ![c].err = Raised("strptime")]
    /\ UNCHANGED <<main, file, artifact, completed, geoCalls, gcCalls, tzCalls,
                   returned, stored, calls, pool, sky>>

\* lines 116-161 and 178-185: draw the stars at the x and y of the dataframe
\* that collect_celestial_data returned, under the title of the instant
Render(c) ==
    /\ c \in FrameCallers
    /\ act[c].pc = "render"
    /\ act' = [act EXCEPT ![c].pc = "done",
                          ![c].img = [when |-> strptime(act[c].when_str),
                                      location |-> act[c].location,
                                      xy |-> act[c].stars.xy]]
    /\ UNCHANGED <<main, file, artifact, completed, geoCalls, gcCalls, tzCalls,
                   returned, stored, calls, pool, sky>>

\* ------------------------------------------- generate_star_map_png (163-174)
PngCall ==
    /\ main.pc = "start" /\ main.entry = "png"
    /\ main' = [main EXCEPT !.pc = "png_wait"]
    /\ act' = [act EXCEPT ![PngCaller].pc = "load_data",
                          ![PngCaller].location = main.location,
                          ![PngCaller].when_str = main.when]
    /\ UNCHANGED <<file, artifact, completed, geoCalls, gcCalls, tzCalls,
                   returned, stored, calls, pool, sky>>

\* lines 168-174 once generate_star_map returned, or its exception passed on
PngFinish ==
    /\ main.pc = "png_wait"
    /\ act[PngCaller].pc \in {"done", "raised"}
    /\ main' = IF act[PngCaller].pc = "done"
               THEN [main EXCEPT !.pc = "done"]
               ELSE [main EXCEPT !.pc = "raised", !.err = act[PngCaller].err]
    /\ UNCHANGED <<act, file, artifact, completed, geoCalls, gcCalls, tzCalls,
                   returned, stored, calls, pool, sky>>

\* ------------------------------------------- generate_star_map_gif (187-207)
\* line 188
GifParse ==
    /\ main.pc = "start" /\ main.entry = "gif"
    /\ main' = IF ParseOk(main.when)
               THEN [main EXCEPT !.pc = "plan", !.start_dt = strptime(main.when)]
               ELSE [main EXCEPT !.pc = "raised", !.err = Raised("strptime")]
    /\ UNCHANGED <<act, file, artifact, completed, geoCalls, gcCalls, tzCalls,
                   returned, stored, calls, pool, sky>>

\* lines 189-201: count the frames, build args_list, submit one task per element
GifPlan ==
    /\ main.pc = "plan"
    /\ IF main.step_minutes = 0
       THEN /\ main' = [main EXCEPT !.pc = "raised",
                                    !.err = Raised("total_frames")]
            /\ UNCHANGED act
       ELSE LET total == TotalFrames(main.hours, main.step_minutes)
                args  == ArgsList(main.location,
                                  Times(main.start_dt, main.step_minutes, total))
            IN  /\ main' = [main EXCEPT !.pc = "collect", !.total_frames = total,
                                        !.args_list = args]
                /\ act' = [c \in Callers |->
                             IF c \in DOMAIN args
                             THEN [act[c] EXCEPT !.pc = "queued",
                                                 !.location = args[c].location,
                                                 !.when_str = args[c].when_str]
                             ELSE act[c]]
    /\ UNCHANGED <<file, artifact, completed, geoCalls, gcCalls, tzCalls,
                   returned, stored, calls, pool, sky>>

Resolved(t) == \E j \in DOMAIN completed : completed[j] = t

Running == {t \in Tasks : act[t].pc \notin {"none", "queued", "cancelled"} /\ ~Resolved(t)}

\* a pool process takes the next work item of the queue and calls _generate_frame
TaskStart(t) ==
    /\ t \in Tasks
    /\ main.pc \in {"collect", "abort"}
    /\ act[t].pc = "queued"
    /\ \A u \in Tasks : u < t => act[u].pc # "queued"
    /\ Cardinality(Running) < CpuCount
    /\ act' = [act EXCEPT ![t].pc = "load_data"]
    /\ UNCHANGED <<main, file, artifact, completed, geoCalls, gcCalls, tzCalls,
                   returned, stored, calls, sky>>
    /\ \E w \in Workers :
          /\ pool[w].task = 0
          \* idle processes with the same history are interchangeable: the
          \* lowest-numbered one stands for them
          /\ \A v \in Workers : (v < w /\ pool[v].task = 0) => pool[v] # pool[w]
          /\ pool' = [pool EXCEPT ![w].task = t]

\* the task's result or exception reaches the parent and resolves its future
FutureDone(t) ==
    /\ t \in Tasks
    /\ act[t].pc \in {"done", "raised"}
    /\ ~Resolved(t)
    /\ completed' = Append(completed, t)
    /\ UNCHANGED <<main, act, file, artifact, geoCalls, gcCalls, tzCalls,
                   returned, stored, calls, sky>>
    /\ pool' = [w \in Workers |->
                  IF pool[w].task = t
                  THEN [pool[w] EXCEPT !.task = 0, !.held = act[t].stars]
                  ELSE pool[w]]

\* the k-th future to finish, as as_completed would yield it (0: none yet)
ResultIndexAsCompleted(k, done) == IF k <= Len(done) THEN done[k] ELSE 0

\* the task whose future the k-th next() of executor.map's iterator waits for
ResultIndex(k, done) == k

\* a best-effort build: the failed frame is left out and the list goes on
CollectFailureSkip(m, e) == [m EXCEPT !.next = @ + 1]

\* line 201, fs.result() raising inside list(...): the exception leaves the
\* with block
CollectFailure(m, e) == [m EXCEPT !.pc = "abort", !.err = e]

\* line 201, one element of list(executor.map(...))
Collect ==
    /\ main.pc = "collect"
    /\ main.next < main.total_frames
    /\ LET t == ResultIndex(main.next + 1, completed)
       IN  /\ t \in Tasks
           /\ Resolved(t)
           /\ main' = IF act[t].pc = "done"
                      THEN [main EXCEPT !.next = @ + 1,
                                        !.images = Append(@, act[t].img)]
                      ELSE CollectFailure(main, act[t].err)
    /\ UNCHANGED <<act, file, artifact, completed, geoCalls, gcCalls, tzCalls,
                   returned, stored, calls, pool, sky>>

\* a streaming build: the list is taken for complete once it holds a frame
ListCompleteEarly(m) == m.next >= 1 \/ m.next >= m.total_frames

\* line 201, list(...) returns when the iterator has yielded the result of
\* every element of args_list
ListComplete(m) == m.next >= m.total_frames

\* line 201, the list is complete and the with block shuts the pool down
CollectDone ==
    /\ main.pc = "collect"
    /\ ListComplete(main)
    /\ main' = [main EXCEPT !.pc = "save"]
    /\ UNCHANGED <<act, file, artifact, completed, geoCalls, gcCalls, tzCalls,
                   returned, stored, calls, pool, sky>>

\* the iterator's cleanup cancels the futures not yet started
CancelTask(t) ==
    /\ t \in Tasks
    /\ main.pc = "abort"
    /\ act[t].pc = "queued"
    /\ act' = [act EXCEPT ![t].pc = "cancelled"]
    /\ UNCHANGED <<main, file, artifact, completed, geoCalls, gcCalls, tzCalls,
                   returned, stored, calls, pool, sky>>

\* a shutdown that waits for a result of every submitted task, the cancelled
\* ones too
PoolDrainedAllReturned == \A t \in Tasks : act[t].pc = "none" \/ Resolved(t)

\* line 200, leaving the with block: shutdown(wait=True) returns when the
\* tasks that were started have ended; a cancelled future is not waited for
PoolDrained == \A t \in Tasks : act[t].pc \in {"none", "cancelled"} \/ Resolved(t)

\* shutdown(wait=True) has seen every task end; the exception reaches the caller
AbortDone ==
    /\ main.pc = "abort"
    /\ PoolDrained
    /\ main' = [main EXCEPT !.pc = "raised"]
    /\ UNCHANGED <<act, file, artifact, completed, geoCalls, gcCalls, tzCalls,
                   returned, stored, calls, pool, sky>>

\* what imageio.mimsave does with the images: it writes them, and handed no
\* image it either writes an empty file or raises
SaveOutcomes(images) ==
    IF Len(images) > 0 THEN {"written"} ELSE {"written", "raised"}

\* lines 204-207
GifSave ==
    /\ main.pc = "save"
    /\ \E outcome \in SaveOutcomes(main.images) :
          IF outcome = "written"
          THEN /\ artifact' = [written |-> TRUE, frames |-> main.images]
               /\ main' = [main EXCEPT !.pc = "done"]
          ELSE /\ artifact' = artifact
               /\ main' = [main EXCEPT !.pc = "raised",
                                       !.err = Raised("mimsave")]
    /\ UNCHANGED <<act, file, completed, geoCalls, gcCalls, tzCalls,
                   returned, stored, calls, pool, sky>>

Next ==
    \/ PngCall
    \/ PngFinish
    \/ GifParse
    \/ GifPlan
    \/ \E t \in Tasks : TaskStart(t)
    \/ \E c \in FrameCallers : LoadData(c)
    \/ \E c \in FrameCallers : GcRead(c)
    \/ \E c \in FrameCallers : GcGeocode(c)
    \/ \E c \in FrameCallers : GcOpen(c)
    \/ \E c \in FrameCallers : GcWrite(c)
    \/ \E c \in FrameCallers : GetTimezone(c)
    \/ \E c \in FrameCallers : Strptime(c)
    \/ \E c \in FrameCallers : Render(c)
    \/ \E t \in Tasks : FutureDone(t)
    \/ Collect
    \/ CollectDone
    \/ \E t \in Tasks : CancelTask(t)
    \/ AbortDone
    \/ GifSave

Spec == Init /\ [][Next]_vars

\* ---------------------------------------------------------------- progress
\* the calling process: the entry point's own statements
MainStep ==
    \/ PngCall \/ PngFinish \/ GifParse \/ GifPlan
    \/ Collect \/ CollectDone \/ (\E t \in Tasks : CancelTask(t))
    \/ AbortDone \/ GifSave

\* one frame computation: the statements of generate_star_map for caller c
FrameStep(c) ==
    \/ LoadData(c) \/ GcRead(c) \/ GcGeocode(c) \/ GcOpen(c) \/ GcWrite(c)
    \/ GetTimezone(c) \/ Strptime(c) \/ Render(c)

\* the executor's queue management for task t
PoolStep(t) == TaskStart(t) \/ FutureDone(t)

\* the calling process keeps running, every frame computation that has a
\* statement to execute executes it (each frame task ends), and the executor
\* hands queued work to idle processes and results back to the parent
SpecLive ==
    /\ Spec
    /\ WF_vars(MainStep)
    /\ \A c \in FrameCallers : WF_vars(FrameStep(c))
    /\ \A t \in Tasks : WF_vars(PoolStep(t))

\* ------------------------------------ processes sharing the cache file
\* no entry point runs: each client process calls get_coordinates by itself
InitCache ==
    /\ InitCommon
    /\ sky = NoSky
    /\ main = [pc |-> "off", entry |-> "", location |-> "", when |-> Malformed,
               hours |-> 0, step_minutes |-> 0, start_dt |-> 0, total_frames |-> 0,
               args_list |-> << >>, next |-> 0, images |-> << >>, err |-> NoErr]
    /\ act = [c \in Callers |-> IdleAct(IF c \in Clients THEN "idle" ELSE "none")]

\* a client calls get_coordinates(name), its previous call being over
ClientCall(c, name) ==
    /\ c \in Clients
    /\ act[c].pc \in {"idle", "returned", "raised"}
    /\ calls[c] < MaxCalls
    /\ calls' = [calls EXCEPT ![c] = @ + 1]
    /\ act' = [act EXCEPT ![c] = [IdleAct("gc_read") EXCEPT
                                     !.location = name,
                                     !.hadEntry = name \in stored]]
    /\ gcCalls' = Bump(gcCalls, c)
    /\ UNCHANGED <<main, file, artifact, completed, geoCalls, tzCalls, returned,
                   stored, pool, sky>>

NextCache ==
    \/ \E c \in Clients, name \in Names : ClientCall(c, name)
    \/ \E c \in Clients : GcRead(c)
    \/ \E c \in Clients : GcGeocode(c)
    \/ \E c \in Clients : GcOpen(c)
    \/ \E c \in Clients : GcWrite(c)

SpecCache == InitCache /\ [][NextCache]_vars

\* ------------------- constellation edges (44-49, 117-122, 141-145): SpecSky
MaxLineLen == 3      \* longest constellation line tried, in stars

\* identifiers a constellation line may name, and those the catalogue may hold
StarIds == {1, 2, 3}

Polylines == UNION {[1 .. n -> StarIds] : n \in 0 .. MaxLineLen}

LineLists == UNION {[1 .. n -> Polylines] : n \in 0 .. 2}

\* lines 48-49: the pairs of neighbours of one line
RECURSIVE LineEdges(_, _)
LineEdges(line, i) ==
    IF i >= Len(line) THEN << >>
    ELSE << <<line[i], line[i + 1]>> >> \o LineEdges(line, i + 1)

\* lines 46-49: the lines of one constellation
RECURSIVE LinesEdges(_)
LinesEdges(lines) ==
    IF lines = << >> THEN << >>
    ELSE LineEdges(Head(lines), 1) \o LinesEdges(Tail(lines))

\* lines 44-49: every constellation of the downloaded data
RECURSIVE ExtractEdges(_)
ExtractEdges(constellations) ==
    IF constellations = << >> THEN << >>
    ELSE LinesEdges(Head(constellations).lines) \o ExtractEdges(Tail(constellations))

\* an edge kept when either end is in the catalogue
ValidEdgeEither(s1, s2, index) == s1 \in index \/ s2 \in index

\* line 118: s1 in stars.index and s2 in stars.index
ValidEdge(s1, s2, index) == s1 \in index /\ s2 \in index

ValidEdges(edges, index) ==
    SelectSeq(edges, LAMBDA e : ValidEdge(e[1], e[2], index))

\* lines 119-120
Column(edges, k) == [i \in DOMAIN edges |-> edges[i][k]]

\* the catalogue index and the constellation data load_data will return: the
\* lines tried, in one constellation or in one constellation each
InitSky ==
    /\ file = Absent
    /\ artifact = NoArtifact
    /\ completed = << >>
    /\ geoCalls = [n \in Names |-> 0]
    /\ gcCalls = Where("main", 0)
    /\ tzCalls = Where("main", 0)
    /\ returned = [n \in Names |-> {}]
    /\ stored = {}
    /\ calls = [c \in Clients |-> 0]
    /\ pool = [w \in Workers |-> [task |-> 0, loads |-> 0, held |-> NoStars]]
    /\ main = [pc |-> "off", entry |-> "", location |-> "", when |-> Malformed,
               hours |-> 0, step_minutes |-> 0, start_dt |-> 0, total_frames |-> 0,
               args_list |-> << >>, next |-> 0, images |-> << >>, err |-> NoErr]
    /\ act = [c \in Callers |-> IdleAct(IF c \in Clients THEN "idle" ELSE "none")]
    /\ \E index \in SUBSET StarIds, lines \in LineLists, together \in BOOLEAN :
          sky = [NoSky EXCEPT
                    !.pc = "load", !.index = index,
                    !.data = IF together THEN << [lines |-> lines] >>
                             ELSE [i \in DOMAIN lines |-> [lines |-> << lines[i] >>]]]

\* load_data, lines 43-51
SkyLoad ==
    /\ sky.pc = "load"
    /\ sky' = [sky EXCEPT !.pc = "filter", !.edges = ExtractEdges(sky.data)]
    /\ UNCHANGED <<main, act, file, artifact, completed, geoCalls, gcCalls, tzCalls,
                   returned, stored, calls, pool>>

\* collect_celestial_data, lines 117-122
SkyFilter ==
    /\ sky.pc = "filter"
    /\ LET valid_edges == ValidEdges(sky.edges, sky.index)
       IN  sky' = [sky EXCEPT !.pc = "draw",
                              !.edges_star1 = Column(valid_edges, 1),
                              !.edges_star2 = Column(valid_edges, 2)]
    /\ UNCHANGED <<main, act, file, artifact, completed, geoCalls, gcCalls, tzCalls,
                   returned, stored, calls, pool>>

\* zip(xy1, xy2) of line 144
Zip(a, b) ==
    [i \in 1 .. (IF Len(a) < Len(b) THEN Len(a) ELSE Len(b)) |-> <<a[i], b[i]>>]

\* generate_star_map, lines 141-145: stars.loc[...] raises KeyError for a
\* label the index does not hold; the segments are plotted pair by pair
SkyDraw ==
    /\ sky.pc = "draw"
    /\ IF \A i \in DOMAIN sky.edges_star1 :
             sky.edges_star1[i] \in sky.index /\ sky.edges_star2[i] \in sky.index
       THEN sky' = [sky EXCEPT !.pc = "done",
                               !.drawn = Zip(sky.edges_star1, sky.edges_star2)]
       ELSE sky' = [sky EXCEPT !.pc = "raised"]
    /\ UNCHANGED <<main, act, file, artifact, completed, geoCalls, gcCalls, tzCalls,
                   returned, stored, calls, pool>>

NextSky ==
    \/ SkyLoad
    \/ SkyFilter
    \/ SkyDraw

SpecSky == InitSky /\ [][NextSky]_vars

\* ====================================================================
\* Properties
\* ====================================================================
GifDispatched ==
    /\ main.entry = "gif"
    /\ \/ main.pc \in {"collect", "abort", "save", "done"}
       \/ main.pc = "raised" /\ main.err.at \notin {"strptime", "total_frames"}

Submitted == {t \in Tasks : act[t].pc # "none"}

Failed == {t \in Tasks : act[t].pc = "raised"}

\* get_coordinates has returned coordinates to caller c
GcReturned(c) ==
    \/ act[c].pc \in {"returned", "get_timezone", "strptime", "render", "done"}
    \/ act[c].pc = "raised" /\ act[c].err.at \in {"get_timezone", "strptime"}

InResolution == {"gc_read", "gc_geocode", "gc_open", "gc_write", "get_timezone"}

Unparsable == {"empty", "garbled", "undecodable"}

\* C1: whatever the order in which the frame tasks finish, the frame at
\* position i of the list handed to mimsave, and of the written GIF, is the
\* frame rendered for start + (i-1)*step (positions counted from 1).
C1_FramesInChronologicalOrder ==
    /\ \A i \in DOMAIN main.images :
          main.images[i].when = strptime(main.when) + (i - 1) * main.step_minutes
    /\ artifact.written =>
          \A i \in DOMAIN artifact.frames :
             artifact.frames[i].when = strptime(main.when) + (i - 1) * main.step_minutes

\* C1 witness: a GIF of two frames is written although the second frame's
\* task finished first.
C1_Witness ==
    /\ artifact.written
    /\ Len(artifact.frames) >= 2
    /\ completed[1] = 2

\* C2: in one animation build, get_coordinates and get_timezone each run
\* exactly once, before fan-out, and never inside a frame task.
C2_ResolvedOnceBeforeFanOut ==
    /\ \A t \in Tasks : act[t].pc \notin InResolution
    /\ gcCalls.worker = 0 /\ tzCalls.worker = 0
    /\ (main.entry = "gif" /\ main.pc = "done" /\ main.total_frames >= 1) =>
          gcCalls.main = 1 /\ tzCalls.main = 1

\* C3: no frame task ever writes the cache file, and no two callers have it
\* open for writing at once.
C3_NoWorkerWritesCache ==
    /\ \A t \in Tasks : act[t].pc # "gc_write"
    /\ Cardinality({c \in Callers : act[c].pc = "gc_write"}) <= 1

\* C4: of any two get_coordinates(L) calls that returned coordinates at most
\* one asked the geocoding service, and all values returned for L are equal.
C4_IdempotentGeocoding ==
    /\ \A c, d \in Callers :
          (c # d /\ act[c].location = act[d].location
                 /\ GcReturned(c) /\ GcReturned(d)) =>
             ~(act[c].geocoded /\ act[d].geocoded)
    /\ \A n \in Names : Cardinality(returned[n]) <= 1

\* C5: a get_coordinates(L) call made after L's entry was written to the
\* cache file finds the entry: it never goes on to the geocoding service,
\* whatever other processes sharing the file did in between.
C5_EntryOnceWrittenIsFound ==
    \A c \in Callers : act[c].hadEntry => act[c].pc # "gc_geocode"

\* C6: when floor(hours*60/step_minutes) is zero or negative the animation
\* build ends in a validation error: no pool is started, mimsave is not
\* called and no artifact is written.
C6_ZeroFramesFailValidation ==
    (/\ main.entry = "gif" /\ ParseOk(main.when) /\ main.step_minutes > 0
     /\ (main.hours * MinutesPerHour) \div main.step_minutes <= 0) =>
       /\ main.pc \notin {"collect", "abort", "save", "done"}
       /\ main.pc = "raised" => main.err.at = "validate"
       /\ ~artifact.written

\* C7: for positive hours and step_minutes with floor(hours*60/step) >= 1,
\* exactly that many tasks are submitted, and task i (from 1) carries the
\* timestamp start + (i-1)*step; 1 hour in steps of 30 gives 2 tasks.
C7_TasksAreTheTimestamps ==
    (GifDispatched /\ main.hours > 0 /\ main.step_minutes > 0
        /\ (main.hours * MinutesPerHour) \div main.step_minutes >= 1) =>
       LET n == (main.hours * MinutesPerHour) \div main.step_minutes
       IN  /\ main.total_frames = n
           /\ DOMAIN main.args_list = 1 .. n
           /\ Submitted = 1 .. n
           /\ \A i \in 1 .. n :
                 /\ ParseOk(act[i].when_str)
                 /\ act[i].when_str = main.args_list[i].when_str
                 /\ strptime(act[i].when_str)
                       = strptime(main.when) + (i - 1) * main.step_minutes
           /\ (main.hours = 1 /\ main.step_minutes = 30) => n = 2

\* C7 witness: 1 hour in steps of 30 minutes from 23:30, both tasks rendered;
\* the second one is for 00:00 of the next day.
C7_Witness ==
    /\ GifDispatched /\ main.hours = 1 /\ main.step_minutes = 30
    /\ act[1].pc = "done" /\ act[2].pc = "done"
    /\ act[2].img.when = 1440

\* C8: with a malformed timestamp, on either entry point, no network call
\* (constellation fetch, geocoding, timezone lookup) is ever made.
C8_MalformedFailsBeforeNetwork ==
    ~ParseOk(main.when) =>
       /\ \A c \in Callers : act[c].net = 0
       /\ \A n \in Names : geoCalls[n] = 0
       /\ tzCalls.main = 0 /\ tzCalls.worker = 0

\* C9: a get_coordinates(L) call that finds the cache file unparsable treats
\* it as a miss: it fails only if the geocoding service has no answer, and
\* once it has returned the file is a valid cache holding L.
C9_CorruptCacheRecovered ==
    \A c \in Callers :
       act[c].readKind \in Unparsable =>
          /\ act[c].pc = "raised" => act[c].err.at \in {"geocode", "geocode_service"}
          /\ act[c].pc = "returned" =>
                file.kind = "json" /\ act[c].location \in DOMAIN file.obj

\* C10: when a frame task fails the build ends with that error and no GIF is
\* written; a written GIF has every frame of the build.
C10_FailFast ==
    /\ artifact.written =>
          /\ Failed = {}
          /\ Len(artifact.frames) = Cardinality(Range(main.total_frames))
    /\ (main.entry = "gif" /\ main.pc = "done") => Failed = {}
    /\ (main.pc \in {"save", "done"}) =>
          Len(main.images) = Cardinality(Range(main.total_frames))
    /\ (main.entry = "gif" /\ main.pc = "raised" /\ Failed # {}) =>
          /\ ~artifact.written
          /\ \E t \in Failed : main.err = act[t].err

\* C10 witness: a build of two frames where one frame was rendered and the
\* other failed has ended with the failure and without a GIF.
C10_Witness ==
    /\ main.entry = "gif" /\ main.pc = "raised"
    /\ \E t, u \in Tasks : act[t].pc = "raised" /\ act[u].pc = "done"
    /\ ~artifact.written

\* C11: no pool process loads the ephemeris and catalogue (a load_data run
\* that returns) more than once, however many frames it computes.
C11_LoadOncePerWorker ==
    \A w \in Workers : pool[w].loads <= 1

\* the failures the core raises itself: no match, timezone lookup, timestamp
CoreFailures == {"geocode", "get_timezone", "strptime"}

\* C12: the class of an error raised for one of the three core failures is
\* the class of no other of them, so the class alone tells the failure.
C12_ErrorKindsDistinct ==
    LET Telling(e) ==
           e.at \in CoreFailures =>
              \A k \in CoreFailures \ {e.at} : e.type # ErrType(k)
    IN  /\ \A c \in Callers : act[c].pc = "raised" => Telling(act[c].err)
        /\ main.pc = "raised" => Telling(main.err)

\* the edges the downloaded lines name: neighbours within one line
NamedEdges ==
    {<<c.lines[j][i], c.lines[j][i + 1]>> :
        <<c, j, i>> \in {<<c, j, i>> \in
              {sky.data[n] : n \in DOMAIN sky.data} \X (1 .. 2) \X (1 .. MaxLineLen) :
              j \in DOMAIN c.lines /\ i + 1 \in DOMAIN c.lines[j]}}

Drawn == {sky.drawn[i] : i \in DOMAIN sky.drawn}

\* C13: an edge is drawn if and only if both its stars are in the catalogue
\* index; edges naming an absent star are dropped and nothing is raised.
C13_EdgesFiltered ==
    /\ sky.pc # "raised"
    /\ sky.pc = "done" =>
          /\ \A e \in NamedEdges :
                e \in Drawn <=> (e[1] \in sky.index /\ e[2] \in sky.index)
          /\ Drawn \subseteq NamedEdges

\* C13 witness: two lines were loaded, one edge was drawn and another, with a
\* star the catalogue lacks, was not.
C13_Witness ==
    /\ sky.pc = "done"
    /\ Len(sky.data) = 2
    /\ \E e, f \in NamedEdges : e \in Drawn /\ f \notin Drawn /\ f[1] \notin sky.index

\* C14: a get_coordinates(L) call for a name the service does not match ends
\* in the not-found ValueError of line 70, and none of its steps changes the
\* cache file: no entry for L is stored, and the entries there stay as they are.
C14_NoMatchLeavesCache ==
    [][\A c \in Callers :
          (/\ act[c].pc \in {"gc_read", "gc_geocode"}
           /\ Geocode(act[c].location) = NoMatch
           /\ act'[c] # act[c]) =>
             /\ file' = file /\ stored' = stored
             /\ act'[c].pc \in {"gc_geocode", "raised"}
             /\ (act'[c].pc = "raised" /\ act'[c].err.at = "geocode") =>
                   act'[c].err = Err("ValueError", "geocode")
             /\ act[c].location \notin StoredIn(file')]_vars

\* C14 witness: the call for an unmatched name has raised the not-found
\* error while the cache file holds entries for other names.
C14_Witness ==
    \E c \in Clients :
       /\ act[c].pc = "raised" /\ act[c].err.at = "geocode"
       /\ act[c].location = "Atlantis"
       /\ file.kind = "json" /\ DOMAIN file.obj = Matched

\* C15: fire-and-collect. Once the build is past list(...), and so whenever
\* the GIF is written, every frame task of the build has returned its image
\* and its future is resolved, no task is queued or running, and the list,
\* and the written GIF, hold one image per task: the image of task i at
\* position i.
C15_FireAndCollect ==
    LET tasks == Range(main.total_frames)
        Collected(frames) ==
            /\ DOMAIN frames = tasks
            /\ \A i \in tasks : frames[i] = act[i].img /\ frames[i] # NoImage
    IN  /\ (main.entry = "gif" /\ main.pc \in {"save", "done"}) =>
              /\ \A t \in tasks : act[t].pc = "done" /\ Resolved(t)
              /\ \A t \in Tasks : act[t].pc # "queued" /\ t \notin Running
              /\ Collected(main.images)
        /\ artifact.written =>
              /\ main.entry = "gif" /\ main.pc = "done"
              /\ Collected(artifact.frames)

\* C15 witness: a GIF of two frames is written after both tasks of the build
\* had returned and left their pool processes idle.
C15_Witness ==
    /\ artifact.written
    /\ main.total_frames = 2 /\ Len(artifact.frames) = 2
    /\ Len(completed) = 2
    /\ \A w \in Workers : pool[w].task = 0

\* a frame computation between its load_data and its projection
BeforeProjection == InResolution \cup {"returned", "strptime"}

\* C16: the x and y a frame is drawn with are those computed in the same
\* frame computation for that frame's instant, whatever other frames are
\* being computed; and the dataframe a frame computation starts from carries
\* no x or y of an earlier one.
C16_CoordinatesFrameScoped ==
    /\ \A c \in FrameCallers :
          /\ act[c].pc \in {"none", "queued", "load_data"} => act[c].stars = NoStars
          /\ act[c].pc \in BeforeProjection =>
                act[c].stars.loaded /\ act[c].stars.xy = NoXY
          /\ act[c].pc = "render" => act[c].stars.xy = strptime(act[c].when_str)
          /\ act[c].pc = "done" =>
                /\ act[c].img.xy = strptime(act[c].when_str)
                /\ act[c].img.xy = act[c].img.when
    /\ \A i \in DOMAIN artifact.frames :
          artifact.frames[i].xy = artifact.frames[i].when

\* C16 witness: a pool process that has drawn one frame is computing the
\* next one, past its load_data, while the x and y of the first are still
\* what that process last projected.
C16_Witness ==
    \E t \in Tasks, w \in Workers :
       /\ pool[w].task = t
       /\ pool[w].held.xy # NoXY
       /\ act[t].pc \in BeforeProjection \cup {"render"}

\* C17: a GIF build that has dispatched at least one frame task, every
\* frame task ending, itself ends: either done, with the GIF written and no
\* frame failed, or raised, with a failed frame and no GIF. It does not stay
\* waiting on the pool.
C17_BuildTerminates ==
    (main.entry = "gif" /\ main.pc = "collect" /\ main.total_frames >= 1)
       ~> \/ main.pc = "done" /\ artifact.written /\ Failed = {}
          \/ main.pc = "raised" /\ Failed # {} /\ ~artifact.written

\* C17 witness: the build has ended with the error of a failed frame after
\* the task still queued was cancelled and the pool shut down.
C17_Witness ==
    /\ main.entry = "gif" /\ main.pc = "raised" /\ main.total_frames >= 1
    /\ \E t \in Tasks : act[t].pc = "cancelled"

====
